---- MODULE Spec2Model ----
(***************************************************************************)
(* Model of src/hint_processor/builtin_hint_processor/ec_utils.rs: the     *)
(* random_ec_point hint of the Cairo VM.                                   *)
(*                                                                         *)
(* Scaling.  The field prime 2^251 + 17*2^192 + 1 is replaced by the prime *)
(* P = 2^8 + 1, a field element then takes FeltLen = 2 bytes instead of 32 *)
(* and a digest DigestLen = 2 bytes instead of 32, so that a digest read   *)
(* as an unsigned integer (0 .. 65535) still exceeds P.  BETA is chosen so *)
(* that, as on the real curve (which has prime order), x^3 + ALPHA*x + BETA*)
(* has no root modulo P.  Bytes are real bytes (0 .. 255), the iteration   *)
(* count 100 and the pad width 10 are the program's.                       *)
(*                                                                         *)
(* SHA-256 is an external library: it is modelled as a deterministic       *)
(* function of the hashed bytes, fixed by the oracle `sha`.                *)
(***************************************************************************)
EXTENDS Integers, Sequences, FiniteSets, TLC

VARIABLES
    memory,     \* VM memory: address -> cell
    ids_data,   \* identifier name -> address (HashMap<String, HintReference>)
    sha,        \* the hash function in use (oracle parameters)
    result,     \* what the last call of random_ec_point_hint returned
    pre,        \* VM memory at the entry of that call
    first,      \* observation of one earlier invocation (history)
    call        \* last call of a pure function: [fn, arg, ret]

vars == <<memory, ids_data, sha, result, pre, first, call>>

----------------------------------------------------------------------------
(* Constants of the program *)

P == 257
ALPHA == 1
BETA == 7
FeltLen == 2
DigestLen == 2
NumIter == 100
PadLen == 10
ByteBase == 256

\* the number of values of a digest: ByteBase ^ DigestLen
DigestMod == ByteBase * ByteBase

Zeros(n) == [k \in 1..n |-> 0]

----------------------------------------------------------------------------
(* Big integers, field elements, bytes *)

\* Felt::from(BigUint) and Felt::from(BigInt): reduction into [0, P)
FeltFrom(n) == n % P

\* Felt::max_value()
FeltMaxValue == P - 1

RECURSIVE to_bytes_be(_)
to_bytes_be(n) ==
    IF n < ByteBase THEN <<n>>
    ELSE to_bytes_be(n \div ByteBase) \o <<n % ByteBase>>

RECURSIVE from_bytes_be(_)
from_bytes_be(bytes) ==
    IF bytes = <<>> THEN 0
    ELSE from_bytes_be(SubSeq(bytes, 1, Len(bytes) - 1)) * ByteBase
         + bytes[Len(bytes)]

to_padded_bytes(n) ==
    LET felt_to_bytes == to_bytes_be(n)
    IN  Zeros(FeltLen - Len(felt_to_bytes)) \o felt_to_bytes

RECURSIVE modpow(_, _, _)
modpow(b, e, m) ==
    IF e = 0 THEN 1 % m
    ELSE LET h == modpow(b, e \div 2, m)
             sq == (h * h) % m
         IN  IF e % 2 = 1 THEN (sq * (b % m)) % m ELSE sq

----------------------------------------------------------------------------
(* Sha256 *)

RECURSIVE Fold(_, _)
Fold(h, bytes) ==
    IF bytes = <<>> THEN h
    ELSE Fold((h * 33 + bytes[1] + 1) % DigestMod, Tail(bytes))

Sha256_new == <<>>

update(hasher, data) == hasher \o data

finalize_reset(o, hasher) ==
    LET v == (o.mul * Fold(Len(hasher), hasher) + o.add) % DigestMod
        d == to_bytes_be(v)
    IN  [digest |-> Zeros(DigestLen - Len(d)) \o d, hasher |-> Sha256_new]

----------------------------------------------------------------------------
(* Quadratic residues and square roots *)

is_quad_residue_noshortcut(a) ==
    modpow(a, FeltMaxValue \div 2, P) = 1

is_quad_residue_fermat(a) ==
    IF a < 2 THEN TRUE
    ELSE modpow(a, FeltMaxValue, P) = 1

is_quad_residue(a) ==
    IF a < 2 THEN TRUE
    ELSE modpow(a, FeltMaxValue \div 2, P) = 1

\* math_utils::sqrt: the smaller of the two roots of a residue
sqrt(n) ==
    LET roots == {r \in 0..(P - 1) : (r * r) % P = n}
    IN  IF roots = {} THEN 0
        ELSE CHOOSE r \in roots : \A r2 \in roots : r <= r2

None == <<>>
Some(v) == <<v>>

y_squared_of(x) == modpow(x, 3, P) + ALPHA * x + BETA

recover_y(x) ==
    LET y_squared == y_squared_of(x)
    IN  IF is_quad_residue(y_squared)
        THEN Some(sqrt(FeltFrom(y_squared)))
        ELSE None

----------------------------------------------------------------------------
(* Point derivation *)

\* lines 90-92: the digest of the seed bytes
seed_digest(o, seed_bytes) ==
    LET hasher == update(Sha256_new, seed_bytes)
    IN  finalize_reset(o, hasher).digest

\* lines 95-100: the candidate x of iteration i, an unsigned DigestLen-byte
\* integer that is not reduced modulo P
candidate_x(o, seed, i) ==
    LET i_bytes == <<i % ByteBase>>
        input == Tail(seed) \o i_bytes \o Zeros(PadLen - Len(i_bytes))
        hasher == update(Sha256_new, input)
    IN  from_bytes_be(finalize_reset(o, hasher).digest)

\* line 102: (-1).pow(seed[0] & 1)
y_coef_positive(seed) == 1

y_coef(seed) == IF seed[1] % 2 = 0 THEN 1 ELSE -1

RandomEcPointNotOnCurve ==
    [kind |-> "RandomEcPointNotOnCurve", name |-> "", member |-> ""]

\* line 106: the value returned for an accepted candidate; `i` records the
\* iteration that returned
accepted_point_unreduced(seed, x, y, i) ==
    [ok |-> TRUE, x |-> x, y |-> FeltFrom(y * y_coef(seed)), i |-> i]

accepted_point(seed, x, y, i) ==
    [ok |-> TRUE, x |-> FeltFrom(x), y |-> FeltFrom(y * y_coef(seed)), i |-> i]

\* lines 94-107: the body of the loop for one i
iteration(o, seed, i) ==
    LET x == candidate_x(o, seed, i)
        y == recover_y(x)
    IN  IF y # None
        THEN accepted_point(seed, x, y[1], i)
        ELSE [ok |-> FALSE, x |-> 0, y |-> 0, i |-> i + 1]

\* lines 93-109: `for i in lo..hi` with the early return of line 106.  The
\* range is walked in increasing order, split in halves only to keep the
\* evaluation shallow: the upper half is evaluated only when the lower half
\* returned nothing.
RECURSIVE for_range_no_return(_, _, _, _)
for_range_no_return(o, seed, lo, hi) ==
    IF hi - lo = 1 THEN iteration(o, seed, lo)
    ELSE LET mid == (lo + hi) \div 2
             lower == for_range_no_return(o, seed, lo, mid)
             upper == for_range_no_return(o, seed, mid, hi)
         IN  IF upper.ok THEN upper ELSE IF lower.ok THEN lower ELSE upper

RECURSIVE for_range(_, _, _, _)
for_range(o, seed, lo, hi) ==
    IF hi - lo = 1 THEN iteration(o, seed, lo)
    ELSE LET mid == (lo + hi) \div 2
             lower == for_range(o, seed, lo, mid)
         IN  IF lower.ok THEN lower ELSE for_range(o, seed, mid, hi)

sample(o, seed) == for_range(o, seed, 0, NumIter)

random_ec_point(o, seed_bytes) == sample(o, seed_digest(o, seed_bytes))

----------------------------------------------------------------------------
(* VM memory and identifier resolution (hint_utils, vm_core) *)

NumCells == 8
Addrs == 0..(NumCells - 1)

NoneCell == [t |-> "none", v |-> 0]
IntCell(n) == [t |-> "int", v |-> n]
RelCell == [t |-> "rel", v |-> 0]

NoResult == [kind |-> "none", name |-> "", member |-> ""]
OkResult == [kind |-> "Ok", name |-> "", member |-> ""]

\* no invocation observed yet
NoFirst ==
    [set |-> FALSE, again |-> FALSE, between |-> FALSE, inputs |-> <<>>,
     out |-> <<>>, outcome |-> <<>>]

UnknownIdentifier(name) ==
    [kind |-> "UnknownIdentifier", name |-> name, member |-> ""]
IdentifierNotInteger(name) ==
    [kind |-> "IdentifierNotInteger", name |-> name, member |-> ""]
IdentifierHasNoMember(name, member) ==
    [kind |-> "IdentifierHasNoMember", name |-> name, member |-> member]
MemoryError == [kind |-> "Memory", name |-> "", member |-> ""]

Ok(v) == [ok |-> TRUE, val |-> v, err |-> NoResult]
Err(e) == [ok |-> FALSE, val |-> 0, err |-> e]

\* the base address of an identifier, or the error of an unknown identifier
get_relocatable_from_var_name(name, ids) ==
    IF name \in DOMAIN ids THEN Ok(ids[name]) ELSE Err(UnknownIdentifier(name))

\* VirtualMachine::get_integer: the cell must hold an integer
get_integer(mem, addr) ==
    IF addr \in DOMAIN mem /\ mem[addr].t = "int"
    THEN Ok(mem[addr].v)
    ELSE Err(MemoryError)

get_integer_from_var_name(name, mem, ids) ==
    LET addr == get_relocatable_from_var_name(name, ids)
    IN  IF ~addr.ok THEN addr
        ELSE LET n == get_integer(mem, addr.val)
             IN  IF n.ok THEN n ELSE Err(IdentifierNotInteger(name))

\* VirtualMachine::insert_value: a cell is written once; writing the value
\* it already holds succeeds, writing another value fails
insert_value(mem, addr, n) ==
    IF addr \notin DOMAIN mem THEN [ok |-> FALSE, mem |-> mem, err |-> MemoryError]
    ELSE IF mem[addr].t = "none"
    THEN [ok |-> TRUE, mem |-> [mem EXCEPT ![addr] = IntCell(n)], err |-> NoResult]
    ELSE IF mem[addr] = IntCell(n)
    THEN [ok |-> TRUE, mem |-> mem, err |-> NoResult]
    ELSE [ok |-> FALSE, mem |-> mem, err |-> MemoryError]

----------------------------------------------------------------------------
(* EcPoint::from_var_name *)

\* lines 39 and 42: .map_err(|_| HintError::IdentifierHasNoMember(name, "x"))
map_err_passed_on(r, name, member) == r

map_err_no_member(r, name, member) ==
    IF r.ok THEN r ELSE Err(IdentifierHasNoMember(name, member))

\* line 41: (point_addr + 1)
y_addr_plus_two(point_addr) == point_addr + 2

y_addr(point_addr) == point_addr + 1

from_var_name(name, mem, ids) ==
    LET point_addr == get_relocatable_from_var_name(name, ids)
    IN  IF ~point_addr.ok THEN point_addr
        ELSE LET x == map_err_no_member(get_integer(mem, point_addr.val),
                                        name, "x")
                 y == map_err_no_member(get_integer(mem, y_addr(point_addr.val)),
                                        name, "x")
             IN  IF ~x.ok THEN x
                 ELSE IF ~y.ok THEN y
                 ELSE Ok([x |-> x.val, y |-> y.val])

----------------------------------------------------------------------------
(* random_ec_point_hint *)

\* lines 66-69: the seed bytes
seed_bytes_of(p, m, q) ==
    to_padded_bytes(p.x) \o to_padded_bytes(p.y) \o to_padded_bytes(m)
        \o to_padded_bytes(q.x) \o to_padded_bytes(q.y)

\* line 73: (s_addr + 1)
s_y_addr_plus_two(s_addr) == s_addr + 2

s_y_addr(s_addr) == s_addr + 1

Fail(e, mem) == [result |-> e, memory |-> mem]

\* lines 70-74, once p, q and m are read
derive_and_write(mem, ids, o, p, q, m) ==
    LET point == random_ec_point(o, seed_bytes_of(p, m, q))
        s_addr == get_relocatable_from_var_name("s", ids)
    IN  IF ~point.ok THEN Fail(RandomEcPointNotOnCurve, mem)
        ELSE IF ~s_addr.ok THEN Fail(s_addr.err, mem)
        ELSE LET w1 == insert_value(mem, s_addr.val, point.x)
             IN  IF ~w1.ok THEN Fail(w1.err, w1.mem)
                 ELSE LET w2 == insert_value(w1.mem, s_y_addr(s_addr.val),
                                             point.y)
                      IN  IF ~w2.ok THEN Fail(w2.err, w2.mem)
                          ELSE [result |-> OkResult, memory |-> w2.mem]

random_ec_point_hint(mem, ids, o) ==
    LET p == from_var_name("p", mem, ids)
        q == from_var_name("q", mem, ids)
        m == get_integer_from_var_name("m", mem, ids)
    IN  IF ~p.ok THEN Fail(p.err, mem)
        ELSE IF ~q.ok THEN Fail(q.err, mem)
        ELSE IF ~m.ok THEN Fail(m.err, mem)
        ELSE derive_and_write(mem, ids, o, p.val, q.val, m.val)

----------------------------------------------------------------------------
(* Inputs of the bounded checks *)

\* field elements the inputs are drawn from
InputFelts == {0, 1, P - 1}

\* hash functions: mul = 0 is a constant function, the others mix
ShaMuls == {0, 1, 77}
ShaAdds == {0, 1, 2, 3, 256, 257, 258, 259}
ShaOracles == [mul : ShaMuls, add : ShaAdds]

DefaultSha == [mul |-> 1, add |-> 0]

SeedBundles ==
    {to_padded_bytes(t[1]) \o to_padded_bytes(t[2]) \o to_padded_bytes(t[3])
        \o to_padded_bytes(t[4]) \o to_padded_bytes(t[5]) :
     t \in InputFelts \X InputFelts \X InputFelts \X InputFelts \X InputFelts}

NoCall == [fn |-> "none", arg |-> 0, done |-> FALSE, ret |-> 0]

Pending(fn, arg) == [fn |-> fn, arg |-> arg, done |-> FALSE, ret |-> 0]

----------------------------------------------------------------------------
(* Calls of the pure functions: Init draws the argument, the action applies
   the function *)

InitEc ==
    /\ memory = <<>>
    /\ ids_data = <<>>
    /\ result = NoResult
    /\ pre = <<>>
    /\ first = NoFirst
    /\ \/ /\ sha = DefaultSha
          /\ \/ \E a \in 0..(P - 1) : call = Pending("is_quad_residue", a)
             \/ \E x \in 0..(DigestMod - 1) : call = Pending("recover_y", x)
       \/ /\ sha \in ShaOracles
          /\ \E seed_bytes \in SeedBundles :
                call = Pending("random_ec_point", seed_bytes)

Return(v) ==
    /\ call' = [call EXCEPT !.done = TRUE, !.ret = v]
    /\ UNCHANGED <<memory, ids_data, sha, result, pre, first>>

CallIsQuadResidue ==
    /\ call.fn = "is_quad_residue" /\ ~call.done
    /\ Return(is_quad_residue(call.arg))

CallRecoverY ==
    /\ call.fn = "recover_y" /\ ~call.done
    /\ Return(recover_y(call.arg))

CallRandomEcPoint ==
    /\ call.fn = "random_ec_point" /\ ~call.done
    /\ Return(random_ec_point(sha, call.arg))

NextEc == CallIsQuadResidue \/ CallRecoverY \/ CallRandomEcPoint

SpecEc == InitEc /\ [][NextEc]_vars

----------------------------------------------------------------------------
(* The hint run by the VM *)

Names == {"p", "q", "m", "s"}

\* p at cells 0 and 1, q at 2 and 3, m at 4, s at 5 and 6; the cells from 7
\* on belong to no identifier
Frame == [p |-> 0, q |-> 2, m |-> 4, s |-> 5]

Without(name) == [n \in Names \ {name} |-> Frame[n]]

\* the bindings the hint is run with: all four identifiers, one of them
\* unknown, or s bound to the cells of p
Layouts ==
    {Frame} \cup {Without(n) : n \in Names} \cup {[Frame EXCEPT !.s = 0]}

\* what the input cells and the output cells hold before the hint runs
HintFelts == {1, P - 1}
InputCells == {NoneCell, RelCell} \cup {IntCell(v) : v \in HintFelts}
OutputCells == {NoneCell, IntCell(5)}

\* a hash function that mixes, and a constant one whose candidate is rejected
HintOracles == {[mul |-> 1, add |-> 0], [mul |-> 0, add |-> 3]}

Memories(inputs, outputs, spare) ==
    {mem \in [Addrs -> inputs \cup outputs] :
        /\ \A a \in 0..4 : mem[a] \in inputs
        /\ \A a \in 5..6 : mem[a] \in outputs
        /\ \A a \in Addrs \ (0..6) : mem[a] \in spare}

Init ==
    /\ memory \in Memories(InputCells, OutputCells, {NoneCell})
    /\ ids_data \in Layouts
    /\ sha \in HintOracles
    /\ result = NoResult
    /\ pre = memory
    /\ first = NoFirst
    /\ call = NoCall

Bound(name) == name \in DOMAIN ids_data

Readable(mem, a) == a \in DOMAIN mem /\ mem[a].t = "int"

\* the struct `name` is bound and both of its cells hold integers
Loads(mem, name) ==
    Bound(name) /\ Readable(mem, ids_data[name]) /\ Readable(mem, ids_data[name] + 1)

InputsRead(mem) ==
    Loads(mem, "p") /\ Loads(mem, "q") /\ Bound("m") /\ Readable(mem, ids_data["m"])

\* the five inputs, when they can all be read
Inputs(mem) ==
    <<mem[ids_data["p"]].v, mem[ids_data["p"] + 1].v, mem[ids_data["m"]].v,
      mem[ids_data["q"]].v, mem[ids_data["q"] + 1].v>>

\* the observed invocation, once a later invocation has run: `between` tells
\* that some later invocation had other inputs
NotedAgain ==
    [first EXCEPT !.again = TRUE,
                  !.between = @ \/ ~InputsRead(memory)
                                \/ Inputs(memory) # first.inputs]

\* one invocation of the hint: the whole handler
HintStep ==
    LET out == random_ec_point_hint(memory, ids_data, sha)
    IN  /\ pre' = memory
        /\ memory' = out.memory
        /\ result' = out.result

RandomEcPointHint ==
    /\ HintStep
    /\ first' = IF first.set THEN NotedAgain ELSE first
    /\ UNCHANGED <<ids_data, sha, call>>

Next == RandomEcPointHint

Spec == Init /\ [][Next]_vars

----------------------------------------------------------------------------
(* Several invocations, with other bindings in between *)

\* whether s is bound, and what its two cells hold
OutputState(mem) ==
    IF Bound("s") THEN <<mem[ids_data["s"]], mem[ids_data["s"] + 1]>> ELSE <<>>

\* what an invocation returned: Ok with the point at s, or the error
Outcome(res, mem) ==
    IF res = OkResult
    THEN <<res, mem[ids_data["s"]].v, mem[ids_data["s"] + 1].v>>
    ELSE <<res>>

\* the bindings of the hint sites: the frame, s one cell further, p and q
\* exchanged
DetLayouts ==
    {Frame, [Frame EXCEPT !.s = 6], [Frame EXCEPT !.p = 2, !.q = 0]}

DetFelts == {0, P - 1}

InitDet ==
    /\ memory \in Memories({IntCell(v) : v \in DetFelts}, OutputCells, OutputCells)
    /\ ids_data \in DetLayouts
    /\ sha = DefaultSha
    /\ result = NoResult
    /\ pre = memory
    /\ first = NoFirst
    /\ call = NoCall

\* an invocation that is remembered, to compare later ones with
ObservedHint ==
    /\ ~first.set
    /\ InputsRead(memory)
    /\ HintStep
    /\ first' = [set |-> TRUE, again |-> FALSE, between |-> FALSE,
                 inputs |-> Inputs(memory),
                 out |-> OutputState(memory),
                 outcome |-> Outcome(result', memory')]
    /\ UNCHANGED <<ids_data, sha, call>>

\* the VM reaches a hint site with other bindings
Rebind ==
    /\ \E ids \in DetLayouts \ {ids_data} : ids_data' = ids
    /\ result' = NoResult
    /\ pre' = memory
    /\ UNCHANGED <<memory, sha, first, call>>

NextDet == RandomEcPointHint \/ ObservedHint \/ Rebind

SpecDet == InitDet /\ [][NextDet]_vars

----------------------------------------------------------------------------
(* Properties of the pure functions, checked under SpecEc *)

IsSquare(a) == \E b \in 0..(P - 1) : (b * b) % P = a

\* (x^3 + ALPHA*x + BETA) mod P, by plain arithmetic on the reduced x
Rhs(x) ==
    LET xr == x % P
    IN  (((((xr * xr) % P) * xr) % P) + ALPHA * xr + BETA) % P

Returned(fn) == call.fn = fn /\ call.done

\* C7: for every a in [0, P), is_quad_residue(a) is true iff a has a square
\* root modulo P, equivalently iff a = 0 or a^((P-1)/2) mod P = 1.
C7_QuadResidueCorrect ==
    Returned("is_quad_residue") =>
        /\ call.ret <=> IsSquare(call.arg)
        /\ call.ret <=> (call.arg = 0 \/ modpow(call.arg, (P - 1) \div 2, P) = 1)

C7_Witness ==
    Returned("is_quad_residue") /\ call.arg = 0 /\ call.ret = TRUE

\* C10: a candidate x, which may exceed P, is accepted by recover_y iff
\* (x^3 + ALPHA*x + BETA) mod P is a quadratic residue modulo P.
C10_AcceptedIffResidue ==
    Returned("recover_y") => ((call.ret # None) <=> IsSquare(Rhs(call.arg)))

C10_Witness ==
    /\ Returned("recover_y")
    /\ call.arg >= P
    /\ y_squared_of(call.arg) >= P
    /\ call.ret # None

\* C2: a point returned by random_ec_point has both coordinates in [0, P),
\* lies on the curve and is not (0, 0).
C2_OnCurve ==
    (Returned("random_ec_point") /\ call.ret.ok) =>
        LET x == call.ret.x
            y == call.ret.y
        IN  /\ x \in 0..(P - 1)
            /\ y \in 0..(P - 1)
            /\ (y * y) % P = Rhs(x)
            /\ <<x, y>> # <<0, 0>>

C2_Witness ==
    /\ Returned("random_ec_point")
    /\ call.ret.ok
    /\ candidate_x(sha, seed_digest(sha, call.arg), call.ret.i) >= P

FlipSignBit(seed) ==
    [seed EXCEPT ![1] = IF seed[1] % 2 = 0 THEN seed[1] + 1 ELSE seed[1] - 1]

\* C5: with sign_bit the low bit of the first digest byte and y0 the root of
\* the accepted candidate's rhs, the returned y is y0 when sign_bit = 0 and
\* (P - y0) mod P when sign_bit = 1; the digest with that bit flipped gives
\* the same x and the additive inverse of y.
C5_SignSelection ==
    (Returned("random_ec_point") /\ call.ret.ok) =>
        LET seed == seed_digest(sha, call.arg)
            sign_bit == seed[1] % 2
            y0 == sqrt(Rhs(candidate_x(sha, seed, call.ret.i)))
            other == sample(sha, FlipSignBit(seed))
        IN  /\ call.ret.y = IF sign_bit = 0 THEN y0 ELSE (P - y0) % P
            /\ other.ok
            /\ other.x = call.ret.x
            /\ (other.y + call.ret.y) % P = 0

C5_Witness ==
    /\ Returned("random_ec_point")
    /\ call.ret.ok
    /\ seed_digest(sha, call.arg)[1] % 2 = 1
    /\ call.ret.y # sqrt(Rhs(call.ret.x))

Accepts(o, seed, i) == recover_y(candidate_x(o, seed, i)) # None

\* C8: random_ec_point returns the point of the least i in 0..99 whose
\* candidate is accepted, and fails iff all 100 candidates are rejected.
C8_LeastAccepted ==
    Returned("random_ec_point") =>
        LET seed == seed_digest(sha, call.arg)
            r == call.ret
        IN  /\ r.ok =>
                /\ r.i \in 0..(NumIter - 1)
                /\ Accepts(sha, seed, r.i)
                /\ \A j \in 0..(r.i - 1) : ~Accepts(sha, seed, j)
                /\ r.x = candidate_x(sha, seed, r.i) % P
            /\ ~r.ok <=> \A j \in 0..(NumIter - 1) : ~Accepts(sha, seed, j)
            /\ r.i <= NumIter

C8_Witness ==
    /\ Returned("random_ec_point")
    /\ call.ret.ok
    /\ call.ret.i >= 2
    /\ \E j \in (call.ret.i + 1)..(NumIter - 1) :
          Accepts(sha, seed_digest(sha, call.arg), j)

C8_Exhausted == Returned("random_ec_point") /\ ~call.ret.ok

----------------------------------------------------------------------------
(* Properties of the hint, checked under Spec *)

Called == result # NoResult
Failed == Called /\ result # OkResult

\* the point derived from the five inputs
Derived(mem) ==
    LET t == Inputs(mem)
    IN  random_ec_point(sha,
            to_padded_bytes(t[1]) \o to_padded_bytes(t[2]) \o to_padded_bytes(t[3])
                \o to_padded_bytes(t[4]) \o to_padded_bytes(t[5]))

\* C1 (as claimed): on every error path VM memory after the call equals VM
\* memory before the call.
C1_AtomicOnFailure == Failed => memory = pre

\* the struct whose load fails first and the coordinate that cannot be read
UnreadableMember(mem) ==
    IF ~Bound("p") THEN None
    ELSE IF ~Readable(mem, ids_data["p"]) THEN <<"p", "x">>
    ELSE IF ~Readable(mem, ids_data["p"] + 1) THEN <<"p", "y">>
    ELSE IF ~Bound("q") THEN None
    ELSE IF ~Readable(mem, ids_data["q"]) THEN <<"q", "x">>
    ELSE IF ~Readable(mem, ids_data["q"] + 1) THEN <<"q", "y">>
    ELSE None

\* C3 (as claimed): when a coordinate cell of p or q cannot be read as an
\* integer, the error is IdentifierHasNoMember(name, member) with the name of
\* the struct being loaded and "x" for offset 0, "y" for offset 1.
C3_NoMemberNamesCoordinate ==
    (Called /\ UnreadableMember(pre) # None) =>
        result = IdentifierHasNoMember(UnreadableMember(pre)[1],
                                       UnreadableMember(pre)[2])

Differing == {a \in Addrs : memory[a] # pre[a]}

\* C4 (as claimed): on Ok exactly two cells differ from the state before the
\* call, s holding the derived x and s+1 the derived y, all others unchanged.
C4_ExactlyTwoCellsDiffer ==
    (Called /\ result = OkResult) =>
        /\ Cardinality(Differing) = 2
        /\ Differing = {ids_data["s"], ids_data["s"] + 1}
        /\ memory[ids_data["s"]] = IntCell(Derived(pre).x)
        /\ memory[ids_data["s"] + 1] = IntCell(Derived(pre).y)

\* C4 (amended): on Ok the cell at s holds the derived x and the cell at s+1
\* the derived y, each of them unset or already holding that value before
\* the call, and every other cell is unchanged.
C4_OnlyOutputCellsWritten ==
    (Called /\ result = OkResult) =>
        LET s_addr == ids_data["s"]
            point == Derived(pre)
        IN  /\ InputsRead(pre) /\ Bound("s") /\ point.ok
            /\ memory[s_addr] = IntCell(point.x)
            /\ memory[s_addr + 1] = IntCell(point.y)
            /\ pre[s_addr] \in {NoneCell, IntCell(point.x)}
            /\ pre[s_addr + 1] \in {NoneCell, IntCell(point.y)}
            /\ \A a \in Addrs \ {s_addr, s_addr + 1} : memory[a] = pre[a]

C4_Witness ==
    /\ Called /\ result = OkResult
    /\ Differing = {ids_data["s"], ids_data["s"] + 1}

\* C9 (as claimed): every error is IdentifierHasNoMember or
\* RandomEcPointNotOnCurve.
C9_TwoErrorKinds ==
    Failed => result.kind \in {"IdentifierHasNoMember", "RandomEcPointNotOnCurve"}

\* C9 (amended): an error is IdentifierHasNoMember when a coordinate cell of
\* p or q cannot be read, RandomEcPointNotOnCurve when no candidate is
\* accepted, and otherwise the error of the helper that failed, passed on
\* unchanged: resolving p, q, m or s, reading m, or a memory write.
C9_ErrorKinds ==
    Failed =>
        \/ /\ result.kind = "IdentifierHasNoMember"
           /\ UnreadableMember(pre) # None
           /\ result.name = UnreadableMember(pre)[1]
        \/ /\ result = RandomEcPointNotOnCurve
           /\ InputsRead(pre) /\ ~Derived(pre).ok
        \/ /\ result.kind = "UnknownIdentifier"
           /\ result.name \in Names /\ ~Bound(result.name)
        \/ /\ result = IdentifierNotInteger("m")
           /\ Loads(pre, "p") /\ Loads(pre, "q")
           /\ Bound("m") /\ ~Readable(pre, ids_data["m"])
        \/ /\ result = MemoryError
           /\ InputsRead(pre) /\ Derived(pre).ok /\ Bound("s")
           /\ \/ pre[ids_data["s"]] \notin {NoneCell, IntCell(Derived(pre).x)}
              \/ pre[ids_data["s"] + 1] \notin {NoneCell, IntCell(Derived(pre).y)}

C9_Witness ==
    /\ Failed
    /\ result.kind = "IdentifierHasNoMember"
    /\ result.name = "q"

----------------------------------------------------------------------------
(* Determinism, checked under SpecDet *)

\* a later invocation with the inputs of the observed one
SameInputsAgain ==
    /\ first.set /\ first.again /\ Called
    /\ InputsRead(pre)
    /\ Inputs(pre) = first.inputs

\* C6 (as claimed): two invocations with equal inputs produce equal results,
\* whatever invocations happened in between.
C6_EqualInputsEqualResults ==
    SameInputsAgain => Outcome(result, memory) = first.outcome

\* C6 (amended): two invocations with equal inputs and equal state of the
\* output (s bound or not, and what the cells at s and s+1 hold before the
\* call) produce equal results, whatever invocations happened in between.
C6_Deterministic ==
    (SameInputsAgain /\ OutputState(pre) = first.out) =>
        Outcome(result, memory) = first.outcome

C6_Witness ==
    /\ SameInputsAgain
    /\ first.between
    /\ OutputState(pre) = first.out
    /\ result = OkResult

====
